---- MODULE Spec2Model ----
(***************************************************************************)
(* Model of the TSDuck "svremove" packet processor plugin                  *)
(* (src/src/tsplugins/tsplugin_svremove.cpp): the per-packet router        *)
(* processPacket, the table handlers it triggers through the section       *)
(* demultiplexer, and the NIT/BAT descriptor list editor.                  *)
(*                                                                         *)
(* The plugin framework calls start() before any processPacket(); Init is  *)
(* the state right after the constructor followed by the first start().    *)
(***************************************************************************)
EXTENDS Integers, Sequences, FiniteSets, TLC

\* Number of complete tables the demultiplexer hands to handleTable in one run.
MaxTables == 3

\* Length in bytes of the longest descriptor payload given to the descriptor list editor.
MaxPayload == 9

(***************************************************************************)
(* Constants of the MPEG/DVB standards used by the plugin.                 *)
(***************************************************************************)
PID_PAT == 0
PID_CAT == 1
PID_TSDT == 2
PID_NIT == 16
PID_SDT == 17
PID_BAT == 17
PID_EIT == 18
PID_RST == 19
PID_TDT == 20
PID_NETSYNC == 21
PID_RNT == 22
PID_INBSIGN == 28
PID_MEASURE == 29
PID_DIT == 30
PID_SIT == 31
PID_NULL == 8191

TID_PAT == 0
TID_PMT == 2
TID_NIT_ACT == 64
TID_NIT_OTH == 65
TID_SDT_ACT == 66
TID_SDT_OTH == 70
TID_BAT == 74

DID_CA == 9
DID_SERVICE_LIST == 65
DID_LOGICAL_CHANNEL_NUM == 131
PDS_EICTA == 40

\* Plugin statuses returned by processPacket.
TSP_OK == "TSP_OK"
TSP_END == "TSP_END"
TSP_DROP == "TSP_DROP"
TSP_NULL == "TSP_NULL"

VARIABLES
    abort,          \* _abort
    ready,          \* _ready
    transparent,    \* _transparent
    service,        \* _service: [id, name, pmt_pid], each <<>> (unset) or <<v>>
    ignore_absent,  \* _ignore_absent
    ignore_bat,     \* _ignore_bat
    ignore_nit,     \* _ignore_nit
    drop_status,    \* _drop_status
    drop_pids,      \* _drop_pids
    ref_pids,       \* _ref_pids
    demux,          \* _demux: [pids: filtered PIDs, ctx: last table delivered per PID/table id/extension]
    pzer_pat,       \* _pzer_pat: [pid, sections]
    pzer_sdt_bat,   \* _pzer_sdt_bat: [pid, sections]
    pzer_nit,       \* _pzer_nit: [pid, sections]
    last,           \* the last call of the plugin API and what it returned
    ntables         \* tables handed to handleTable since start()

config == <<ignore_absent, ignore_bat, ignore_nit, drop_status>>
flags == <<abort, ready, transparent>>
pidsets == <<drop_pids, ref_pids>>
pzers == <<pzer_pat, pzer_sdt_bat, pzer_nit>>
vars == <<abort, ready, transparent, service, ignore_absent, ignore_bat, ignore_nit,
          drop_status, drop_pids, ref_pids, demux, pzer_pat, pzer_sdt_bat, pzer_nit,
          last, ntables>>

(***************************************************************************)
(* Service (tsService.h): optional fields, with the getters' defaults.     *)
(***************************************************************************)
hasId(svc) == svc.id # <<>>
getId(svc) == IF svc.id # <<>> THEN svc.id[1] ELSE 0
hasName(svc) == svc.name # <<>>

\* Service names are sequences of characters.
LowerCase(c) ==
    CASE c = "C" -> "c"
      [] c = "H" -> "h"
      [] c = "T" -> "t"
      [] c = "V" -> "v"
      [] OTHER -> c

\* SimilarStrings: comparison is case insensitive and ignores blanks.
Canonical(name) ==
    LET noblank == SelectSeq(name, LAMBDA c : c # " ")
    IN  [i \in 1..Len(noblank) |-> LowerCase(noblank[i])]

SimilarStrings(a, b) == Canonical(a) = Canonical(b)

Min(S) == CHOOSE x \in S : \A y \in S : x <= y

\* SDT::findService(Service&): first entry, in service id order, with a similar name.
findServiceMatches(sdt, svc) ==
    IF hasName(svc)
    THEN {s \in DOMAIN sdt.services : SimilarStrings(sdt.services[s], svc.name[1])}
    ELSE {}

(***************************************************************************)
(* Input streams: the packets the plugin may be given. A packet has a PID  *)
(* and may complete a table on that PID.                                   *)
(***************************************************************************)
NoTable == [tid |-> -1]

Ch5 == <<"C", "h", "5">>
ch_5 == <<"c", "h", " ", "5">>
Tv == <<"T", "v">>

CADesc(valid, pid) == [tag |-> DID_CA, pds |-> 0, valid |-> valid, ca_pid |-> pid, payload |-> <<>>]
Desc(tag, pds, payload) == [tag |-> tag, pds |-> pds, valid |-> TRUE, ca_pid |-> PID_NULL, payload |-> payload]

PATTable(pid, valid, nit, pmts) ==
    [tid |-> TID_PAT, pid |-> pid, ext |-> 1, valid |-> valid, nit_pid |-> nit, pmts |-> pmts]

PMTTable(pid, sid, pcr, descs, streams) ==
    [tid |-> TID_PMT, pid |-> pid, ext |-> sid, valid |-> TRUE, service_id |-> sid,
     pcr_pid |-> pcr, descs |-> descs, streams |-> streams]

SDTTable(tid, tsid, valid, services) ==
    [tid |-> tid, pid |-> PID_SDT, ext |-> tsid, valid |-> valid, ts_id |-> tsid, services |-> services]

TLTable(tid, pid, ext, valid, descs, transports) ==
    [tid |-> tid, pid |-> pid, ext |-> ext, valid |-> valid, descs |-> descs, transports |-> transports]

PATs ==
    { PATTable(PID_PAT, TRUE, PID_NIT, (32 :> 256) @@ (48 :> 512)),
      PATTable(PID_PAT, TRUE, PID_NULL, (48 :> 512)),
      PATTable(PID_PAT, TRUE, PID_NIT, (32 :> 258) @@ (48 :> 512) @@ (288 :> 258)),
      PATTable(PID_PAT, FALSE, PID_NIT, (32 :> 256)),
      PATTable(PID_SDT, TRUE, PID_NIT, (32 :> 256)) }

PMTs ==
    { PMTTable(256, 32, 257, <<CADesc(TRUE, 259)>>,
               (257 :> <<>>) @@ (258 :> <<CADesc(TRUE, 260), CADesc(FALSE, 261)>>)),
      PMTTable(256, 32, PID_NULL, <<CADesc(TRUE, PID_EIT)>>, (258 :> <<>>) @@ (PID_NIT :> <<>>)),
      PMTTable(512, 48, 257, <<>>, (257 :> <<>>)),
      PMTTable(PID_SDT, 0, 257, <<>>, (257 :> <<>>)) }

SDTs ==
    { SDTTable(TID_SDT_ACT, 1, TRUE, (32 :> ch_5) @@ (48 :> Tv)),
      SDTTable(TID_SDT_ACT, 1, TRUE, (48 :> Tv)),
      SDTTable(TID_SDT_ACT, 1, TRUE, (32 :> Tv) @@ (48 :> Ch5)),
      SDTTable(TID_SDT_ACT, 1, FALSE, (32 :> Ch5)),
      SDTTable(TID_SDT_OTH, 2, TRUE, (32 :> Ch5)) }

BATs ==
    { TLTable(TID_BAT, PID_BAT, 5, TRUE,
              << Desc(DID_SERVICE_LIST, 0, <<0, 32, 1, 0, 48, 1, 1, 32, 2, 0, 32, 3>>) >>,
              (1 :> << Desc(DID_LOGICAL_CHANNEL_NUM, PDS_EICTA, <<0, 32, 252, 1, 0, 48, 252, 2>>),
                       Desc(DID_LOGICAL_CHANNEL_NUM, 0, <<0, 32, 252, 1>>) >>)) }

NITs ==
    { TLTable(TID_NIT_ACT, PID_NIT, 7, TRUE,
              << >>,
              (1 :> << Desc(DID_SERVICE_LIST, 0, <<0, 48, 1, 0, 32, 1>>) >>)),
      TLTable(TID_NIT_OTH, PID_NIT, 8, TRUE,
              << Desc(DID_SERVICE_LIST, 0, <<0, 32, 1>>) >>, << >>) }

PacketPIDs == {PID_PAT, PID_NIT, PID_SDT, 256, 257, 258, 259, 260, 512, PID_NULL}

\* The values of the command line argument: a service id or a service name.
Selectors == {[id |-> <<32>>, name |-> <<>>, pmt_pid |-> <<>>],
              [id |-> <<>>, name |-> <<Ch5>>, pmt_pid |-> <<>>]}

NoCall == [op |-> "none", pid |-> PID_NULL, table |-> NoTable, fed |-> FALSE,
           status |-> TSP_OK, from |-> "none"]

(***************************************************************************)
(* CyclingPacketizer (tsCyclingPacketizer.h): the sections it cycles       *)
(* through, held as whole tables, and its output PID. The position in the  *)
(* cycle is internal to the packetizer and not part of this model.         *)
(***************************************************************************)
removeSections(pzer, tid, ext) ==
    [pzer EXCEPT !.sections = {s \in @ : ~(s.tid = tid /\ s.ext = ext)}]

removeSectionsTid(pzer, tid) ==
    [pzer EXCEPT !.sections = {s \in @ : s.tid # tid}]

addTable(pzer, table) ==
    [pzer EXCEPT !.sections = @ \cup {table}]

(***************************************************************************)
(* SectionDemux (tsSectionDemux.h): the PID filter and, per PID, table id  *)
(* and table id extension, the last table delivered (the same version of   *)
(* a table is delivered once).                                             *)
(***************************************************************************)
ctxRecord(table) ==
    {c \in demux.ctx : ~(c.pid = table.pid /\ c.tid = table.tid /\ c.ext = table.ext)}
        \cup {table}

resetPID(ctx, pid) == {c \in ctx : c.pid # pid}

\* The demux after the delivery of table, the handler having called addPID on pids.
demuxAfter(table, pids) ==
    [pids |-> demux.pids \cup pids, ctx |-> ctxRecord(table)]

(***************************************************************************)
(* start()                                                                 *)
(***************************************************************************)
SystemPIDs ==
    {PID_PAT, PID_CAT, PID_TSDT, PID_NULL, PID_NIT, PID_SDT, PID_EIT, PID_RST, PID_TDT,
     PID_NETSYNC, PID_RNT, PID_INBSIGN, PID_MEASURE, PID_DIT, PID_SIT}

\* startDemuxPIDs without the test of _service.hasId().
startDemuxPIDs_always_pat(sel, nit) ==
    {PID_SDT, PID_PAT} \cup (IF ~nit THEN {PID_NIT} ELSE {})

startDemuxPIDs(sel, nit) ==
    {PID_SDT} \cup (IF hasId(sel) THEN {PID_PAT} \cup (IF ~nit THEN {PID_NIT} ELSE {}) ELSE {})

Init ==
    /\ service \in Selectors
    /\ ignore_absent \in BOOLEAN
    /\ ignore_bat \in BOOLEAN
    /\ ignore_nit \in BOOLEAN
    /\ drop_status \in {TSP_NULL, TSP_DROP}
    /\ demux = [pids |-> startDemuxPIDs(service, ignore_nit), ctx |-> {}]
    /\ ref_pids = SystemPIDs
    /\ abort = FALSE
    /\ ready = FALSE
    /\ transparent = FALSE
    /\ drop_pids = {}
    /\ pzer_pat = [pid |-> PID_PAT, sections |-> {}]
    /\ pzer_sdt_bat = [pid |-> PID_SDT, sections |-> {}]
    /\ pzer_nit = [pid |-> PID_NIT, sections |-> {}]
    /\ last = NoCall
    /\ ntables = 0

\* The command line is that of the process: a restart reads the same options,
\* and Service::set clears the service before it parses the same argument.
selector(svc) ==
    IF hasName(svc) THEN [id |-> <<>>, name |-> svc.name, pmt_pid |-> <<>>]
    ELSE [id |-> svc.id, name |-> <<>>, pmt_pid |-> <<>>]

start ==
    /\ service' = selector(service)
    /\ UNCHANGED <<ignore_absent, ignore_bat, ignore_nit, drop_status>>
    /\ demux' = [pids |-> startDemuxPIDs(service', ignore_nit), ctx |-> {}]
    /\ ref_pids' = SystemPIDs
    /\ abort' = FALSE
    /\ ready' = FALSE
    /\ transparent' = FALSE
    /\ drop_pids' = {}
    /\ pzer_pat' = [pzer_pat EXCEPT !.sections = {}]
    /\ pzer_sdt_bat' = [pzer_sdt_bat EXCEPT !.sections = {}]
    /\ pzer_nit' = [pzer_nit EXCEPT !.sections = {}]
    /\ last' = [NoCall EXCEPT !.op = "start"]
    /\ ntables' = 0

(***************************************************************************)
(* processSDT                                                              *)
(***************************************************************************)
\* eraseService that leaves the SDT as it is.
eraseService_none(sdt, id) == sdt

eraseService(sdt, id) ==
    [sdt EXCEPT !.services = [s \in DOMAIN @ \ {id} |-> @[s]]]

\* processSDT without the else: a name not found sets _abort also under --ignore-absent.
processSDT_abort_too(sdt) ==
    LET matches == findServiceMatches(sdt, service)
    IN  IF ~hasId(service) /\ matches = {}
        THEN /\ transparent' = IF ignore_absent THEN TRUE ELSE transparent
             /\ abort' = TRUE
             /\ demux' = demuxAfter(sdt, {})
             /\ UNCHANGED <<ready, service, drop_pids, ref_pids, pzer_pat, pzer_sdt_bat, pzer_nit>>
        ELSE LET svc == IF hasId(service) THEN service
                        ELSE [service EXCEPT !.id = <<Min(matches)>>]
                 watch == IF hasId(service) THEN {}
                          ELSE {PID_PAT} \cup (IF ~ignore_nit THEN {PID_NIT} ELSE {})
                 edited == IF hasId(svc) THEN eraseService(sdt, getId(svc)) ELSE sdt
             IN  /\ service' = svc
                 /\ demux' = demuxAfter(sdt, watch)
                 /\ pzer_sdt_bat' = addTable(removeSections(pzer_sdt_bat, TID_SDT_ACT, sdt.ts_id), edited)
                 /\ UNCHANGED <<abort, ready, transparent, drop_pids, ref_pids, pzer_pat, pzer_nit>>

\* processSDT that searches the service by name whenever it has a name.
processSDT_by_name_again(sdt) ==
    LET matches == findServiceMatches(sdt, service)
    IN  IF ~hasId(service) /\ matches = {}
        THEN /\ transparent' = IF ignore_absent THEN TRUE ELSE transparent
             /\ abort' = IF ignore_absent THEN abort ELSE TRUE
             /\ demux' = demuxAfter(sdt, {})
             /\ UNCHANGED <<ready, service, drop_pids, ref_pids, pzer_pat, pzer_sdt_bat, pzer_nit>>
        ELSE LET svc == IF matches = {} THEN service
                        ELSE [service EXCEPT !.id = <<Min(matches)>>]
                 watch == IF hasId(service) THEN {}
                          ELSE {PID_PAT} \cup (IF ~ignore_nit THEN {PID_NIT} ELSE {})
                 edited == IF hasId(svc) THEN eraseService(sdt, getId(svc)) ELSE sdt
             IN  /\ service' = svc
                 /\ demux' = demuxAfter(sdt, watch)
                 /\ pzer_sdt_bat' = addTable(removeSections(pzer_sdt_bat, TID_SDT_ACT, sdt.ts_id), edited)
                 /\ UNCHANGED <<abort, ready, transparent, drop_pids, ref_pids, pzer_pat, pzer_nit>>

\* processSDT that treats a service id not found like a service name not found.
processSDT_id_absent_fatal(sdt) ==
    LET matches == IF hasId(service) THEN {getId(service)} \cap DOMAIN sdt.services
                   ELSE findServiceMatches(sdt, service)
    IN  IF matches = {}
        THEN /\ transparent' = IF ignore_absent THEN TRUE ELSE transparent
             /\ abort' = IF ignore_absent THEN abort ELSE TRUE
             /\ demux' = demuxAfter(sdt, {})
             /\ UNCHANGED <<ready, service, drop_pids, ref_pids, pzer_pat, pzer_sdt_bat, pzer_nit>>
        ELSE LET svc == IF hasId(service) THEN service
                        ELSE [service EXCEPT !.id = <<Min(matches)>>]
                 watch == IF hasId(service) THEN {}
                          ELSE {PID_PAT} \cup (IF ~ignore_nit THEN {PID_NIT} ELSE {})
                 edited == IF hasId(svc) THEN eraseService(sdt, getId(svc)) ELSE sdt
             IN  /\ service' = svc
                 /\ demux' = demuxAfter(sdt, watch)
                 /\ pzer_sdt_bat' = addTable(removeSections(pzer_sdt_bat, TID_SDT_ACT, sdt.ts_id), edited)
                 /\ UNCHANGED <<abort, ready, transparent, drop_pids, ref_pids, pzer_pat, pzer_nit>>

\* processSDT without the test of _ignore_absent: a name not found is always fatal.
processSDT_always_fatal(sdt) ==
    LET matches == findServiceMatches(sdt, service)
    IN  IF ~hasId(service) /\ matches = {}
        THEN /\ abort' = TRUE
             /\ demux' = demuxAfter(sdt, {})
             /\ UNCHANGED <<transparent, ready, service, drop_pids, ref_pids, pzer_pat, pzer_sdt_bat, pzer_nit>>
        ELSE LET svc == IF hasId(service) THEN service
                        ELSE [service EXCEPT !.id = <<Min(matches)>>]
                 watch == IF hasId(service) THEN {}
                          ELSE {PID_PAT} \cup (IF ~ignore_nit THEN {PID_NIT} ELSE {})
                 edited == IF hasId(svc) THEN eraseService(sdt, getId(svc)) ELSE sdt
             IN  /\ service' = svc
                 /\ demux' = demuxAfter(sdt, watch)
                 /\ pzer_sdt_bat' = addTable(removeSections(pzer_sdt_bat, TID_SDT_ACT, sdt.ts_id), edited)
                 /\ UNCHANGED <<abort, ready, transparent, drop_pids, ref_pids, pzer_pat, pzer_nit>>

processSDT(sdt) ==
    LET matches == findServiceMatches(sdt, service)
    IN  IF ~hasId(service) /\ matches = {}
        THEN /\ transparent' = IF ignore_absent THEN TRUE ELSE transparent
             /\ abort' = IF ignore_absent THEN abort ELSE TRUE
             /\ demux' = demuxAfter(sdt, {})
             /\ UNCHANGED <<ready, service, drop_pids, ref_pids, pzer_pat, pzer_sdt_bat, pzer_nit>>
        ELSE LET svc == IF hasId(service) THEN service
                        ELSE [service EXCEPT !.id = <<Min(matches)>>]
                 watch == IF hasId(service) THEN {}
                          ELSE {PID_PAT} \cup (IF ~ignore_nit THEN {PID_NIT} ELSE {})
                 edited == IF hasId(svc) THEN eraseService(sdt, getId(svc)) ELSE sdt
             IN  /\ service' = svc
                 /\ demux' = demuxAfter(sdt, watch)
                 /\ pzer_sdt_bat' = addTable(removeSections(pzer_sdt_bat, TID_SDT_ACT, sdt.ts_id), edited)
                 /\ UNCHANGED <<abort, ready, transparent, drop_pids, ref_pids, pzer_pat, pzer_nit>>

(***************************************************************************)
(* processPAT                                                              *)
(***************************************************************************)
\* erasePMT that removes every service sharing the PMT PID of the service.
erasePMT_by_pid(pat, id) ==
    [pat EXCEPT !.pmts = [s \in {x \in DOMAIN @ : @[x] # @[id]} |-> @[s]]]

erasePMT(pat, id) ==
    [pat EXCEPT !.pmts = [s \in DOMAIN @ \ {id} |-> @[s]]]

\* processPAT that replaces the PAT in the packetizer only when it removed the service.
processPAT_emit_if_found(pat) ==
    LET id == getId(service)
        found == id \in DOMAIN pat.pmts
        edited == IF found THEN erasePMT(pat, id) ELSE pat
    IN  /\ pzer_nit' = [pzer_nit EXCEPT !.pid = pat.nit_pid]
        /\ demux' = demuxAfter(pat, {pat.nit_pid} \cup {pat.pmts[s] : s \in DOMAIN pat.pmts})
        /\ service' = IF found THEN [service EXCEPT !.pmt_pid = <<pat.pmts[id]>>] ELSE service
        /\ drop_pids' = IF found THEN drop_pids \cup {pat.pmts[id]} ELSE drop_pids
        /\ ref_pids' = ref_pids \cup {pat.pmts[s] : s \in DOMAIN pat.pmts \ {id}}
        /\ ready' = IF ~found /\ (ignore_absent \/ ~ignore_nit \/ ~ignore_bat) THEN TRUE ELSE ready
        /\ abort' = IF ~found /\ ~(ignore_absent \/ ~ignore_nit \/ ~ignore_bat) THEN TRUE ELSE abort
        /\ pzer_pat' = IF found THEN addTable(removeSectionsTid(pzer_pat, TID_PAT), edited)
                       ELSE pzer_pat
        /\ UNCHANGED <<transparent, pzer_sdt_bat>>

\* processPAT that assigns _abort on every PAT instead of only setting it.
processPAT_abort_assigned(pat) ==
    LET id == getId(service)
        found == id \in DOMAIN pat.pmts
        edited == IF found THEN erasePMT(pat, id) ELSE pat
    IN  /\ pzer_nit' = [pzer_nit EXCEPT !.pid = pat.nit_pid]
        /\ demux' = demuxAfter(pat, {pat.nit_pid} \cup {pat.pmts[s] : s \in DOMAIN pat.pmts})
        /\ service' = IF found THEN [service EXCEPT !.pmt_pid = <<pat.pmts[id]>>] ELSE service
        /\ drop_pids' = IF found THEN drop_pids \cup {pat.pmts[id]} ELSE drop_pids
        /\ ref_pids' = ref_pids \cup {pat.pmts[s] : s \in DOMAIN pat.pmts \ {id}}
        /\ ready' = IF ~found /\ (ignore_absent \/ ~ignore_nit \/ ~ignore_bat) THEN TRUE ELSE ready
        /\ abort' = (~found /\ ~(ignore_absent \/ ~ignore_nit \/ ~ignore_bat))
        /\ pzer_pat' = addTable(removeSectionsTid(pzer_pat, TID_PAT), edited)
        /\ UNCHANGED <<transparent, pzer_sdt_bat>>

\* processPAT that tolerates an absent service only under --ignore-absent.
processPAT_absent_only(pat) ==
    LET id == getId(service)
        found == id \in DOMAIN pat.pmts
        edited == IF found THEN erasePMT(pat, id) ELSE pat
    IN  /\ pzer_nit' = [pzer_nit EXCEPT !.pid = pat.nit_pid]
        /\ demux' = demuxAfter(pat, {pat.nit_pid} \cup {pat.pmts[s] : s \in DOMAIN pat.pmts})
        /\ service' = IF found THEN [service EXCEPT !.pmt_pid = <<pat.pmts[id]>>] ELSE service
        /\ drop_pids' = IF found THEN drop_pids \cup {pat.pmts[id]} ELSE drop_pids
        /\ ref_pids' = ref_pids \cup {pat.pmts[s] : s \in DOMAIN pat.pmts \ {id}}
        /\ ready' = IF ~found /\ ignore_absent THEN TRUE ELSE ready
        /\ abort' = IF ~found /\ ~ignore_absent THEN TRUE ELSE abort
        /\ pzer_pat' = addTable(removeSectionsTid(pzer_pat, TID_PAT), edited)
        /\ UNCHANGED <<transparent, pzer_sdt_bat>>

processPAT(pat) ==
    LET id == getId(service)
        found == id \in DOMAIN pat.pmts
        edited == IF found THEN erasePMT(pat, id) ELSE pat
    IN  /\ pzer_nit' = [pzer_nit EXCEPT !.pid = pat.nit_pid]
        /\ demux' = demuxAfter(pat, {pat.nit_pid} \cup {pat.pmts[s] : s \in DOMAIN pat.pmts})
        /\ service' = IF found THEN [service EXCEPT !.pmt_pid = <<pat.pmts[id]>>] ELSE service
        /\ drop_pids' = IF found THEN drop_pids \cup {pat.pmts[id]} ELSE drop_pids
        /\ ref_pids' = ref_pids \cup {pat.pmts[s] : s \in DOMAIN pat.pmts \ {id}}
        /\ ready' = IF ~found /\ (ignore_absent \/ ~ignore_nit \/ ~ignore_bat) THEN TRUE ELSE ready
        /\ abort' = IF ~found /\ ~(ignore_absent \/ ~ignore_nit \/ ~ignore_bat) THEN TRUE ELSE abort
        /\ pzer_pat' = addTable(removeSectionsTid(pzer_pat, TID_PAT), edited)
        /\ UNCHANGED <<transparent, pzer_sdt_bat>>

(***************************************************************************)
(* processPMT and addECMPID                                                *)
(***************************************************************************)
\* addECMPID that marks nothing.
addECMPID_none(dlist, pid_set) == pid_set

addECMPID(dlist, pid_set) ==
    pid_set \cup {dlist[i].ca_pid : i \in {j \in DOMAIN dlist : dlist[j].tag = DID_CA /\ dlist[j].valid}}

RECURSIVE markStreams(_, _, _)
markStreams(streams, todo, pid_set) ==
    IF todo = {} THEN pid_set
    ELSE LET es == Min(todo)
         IN  markStreams(streams, todo \ {es}, addECMPID(streams[es], pid_set \cup {es}))

markPMT(pmt, pid_set) ==
    markStreams(pmt.streams, DOMAIN pmt.streams, addECMPID(pmt.descs, pid_set) \cup {pmt.pcr_pid})

\* processPMT that clears in _ref_pids the PIDs it marks in _drop_pids.
processPMT_unref_dropped(pmt) ==
    LET removed_service == pmt.service_id = getId(service)
    IN  /\ drop_pids' = IF removed_service THEN markPMT(pmt, drop_pids) ELSE drop_pids
        /\ ref_pids' = IF removed_service THEN ref_pids \ markPMT(pmt, {}) ELSE markPMT(pmt, ref_pids)
        /\ ready' = (ready \/ removed_service)
        /\ demux' = demuxAfter(pmt, {})
        /\ UNCHANGED <<abort, transparent, service, pzer_pat, pzer_sdt_bat, pzer_nit>>

\* processPMT that assigns _ready on every PMT instead of only setting it.
processPMT_ready_assigned(pmt) ==
    LET removed_service == pmt.service_id = getId(service)
    IN  /\ drop_pids' = IF removed_service THEN markPMT(pmt, drop_pids) ELSE drop_pids
        /\ ref_pids' = IF removed_service THEN ref_pids ELSE markPMT(pmt, ref_pids)
        /\ ready' = removed_service
        /\ demux' = demuxAfter(pmt, {})
        /\ UNCHANGED <<abort, transparent, service, pzer_pat, pzer_sdt_bat, pzer_nit>>

\* processPMT that marks the PIDs of the removed service only.
processPMT_target_only(pmt) ==
    LET removed_service == pmt.service_id = getId(service)
    IN  /\ drop_pids' = IF removed_service THEN markPMT(pmt, drop_pids) ELSE drop_pids
        /\ ref_pids' = ref_pids
        /\ ready' = (ready \/ removed_service)
        /\ demux' = demuxAfter(pmt, {})
        /\ UNCHANGED <<abort, transparent, service, pzer_pat, pzer_sdt_bat, pzer_nit>>

processPMT(pmt) ==
    LET removed_service == pmt.service_id = getId(service)
    IN  /\ drop_pids' = IF removed_service THEN markPMT(pmt, drop_pids) ELSE drop_pids
        /\ ref_pids' = IF removed_service THEN ref_pids ELSE markPMT(pmt, ref_pids)
        /\ ready' = (ready \/ removed_service)
        /\ demux' = demuxAfter(pmt, {})
        /\ UNCHANGED <<abort, transparent, service, pzer_pat, pzer_sdt_bat, pzer_nit>>

(***************************************************************************)
(* processNITBAT and processNITBATDescriptorList                           *)
(***************************************************************************)
\* GetUInt16 reading the two bytes in little endian order.
GetUInt16_le(buf, data) == (buf[data + 2] * 256 + buf[data + 1]) % 65536

\* GetUInt16: big endian 16-bit integer at byte offset data of the payload.
GetUInt16(buf, data) == (buf[data + 1] * 256 + buf[data + 2]) % 65536

\* copyRecord that copies the service id only and leaves the rest of the record.
copyRecord_id_only(buf, data, new_data, rec) ==
    [k \in 1..Len(buf) |->
        IF k > new_data /\ k <= new_data + 2 THEN buf[data + (k - new_data)] ELSE buf[k]]

\* Copy of one record of rec bytes from offset data to offset new_data.
copyRecord(buf, data, new_data, rec) ==
    [k \in 1..Len(buf) |->
        IF k > new_data /\ k <= new_data + rec THEN buf[data + (k - new_data)] ELSE buf[k]]

\* compactPayload that moves the bytes left after the last complete record
\* behind the records it kept.
RECURSIVE compactPayload_keep_tail(_, _, _, _, _, _)
compactPayload_keep_tail(buf, data, new_data, size, rec, id) ==
    IF size >= rec
    THEN IF GetUInt16(buf, data) # id
         THEN compactPayload_keep_tail(copyRecord(buf, data, new_data, rec),
                                       data + rec, new_data + rec, size - rec, rec, id)
         ELSE compactPayload_keep_tail(buf, data + rec, new_data, size - rec, rec, id)
    ELSE SubSeq(buf, 1, new_data) \o SubSeq(buf, data + 1, data + size)

\* compactPayload that, having removed a record, keeps the next one without a test.
RECURSIVE compactPayload_skip_next(_, _, _, _, _, _)
compactPayload_skip_next(buf, data, new_data, size, rec, id) ==
    IF size >= rec
    THEN IF GetUInt16(buf, data) # id
         THEN compactPayload_skip_next(copyRecord(buf, data, new_data, rec),
                                       data + rec, new_data + rec, size - rec, rec, id)
         ELSE IF size >= 2 * rec
         THEN compactPayload_skip_next(copyRecord(buf, data + rec, new_data, rec),
                                       data + 2 * rec, new_data + rec, size - 2 * rec, rec, id)
         ELSE compactPayload_skip_next(buf, data + rec, new_data, size - rec, rec, id)
    ELSE SubSeq(buf, 1, new_data)

\* The while loop over the records of one payload, then resizePayload(new_data - base).
RECURSIVE compactPayload(_, _, _, _, _, _)
compactPayload(buf, data, new_data, size, rec, id) ==
    IF size >= rec
    THEN IF GetUInt16(buf, data) # id
         THEN compactPayload(copyRecord(buf, data, new_data, rec),
                             data + rec, new_data + rec, size - rec, rec, id)
         ELSE compactPayload(buf, data + rec, new_data, size - rec, rec, id)
    ELSE SubSeq(buf, 1, new_data)

processNITBATDescriptorList(dlist) ==
    [i \in 1..Len(dlist) |->
        IF dlist[i].tag = DID_SERVICE_LIST
        THEN [dlist[i] EXCEPT !.payload = compactPayload(@, 0, 0, Len(@), 3, getId(service))]
        ELSE IF dlist[i].tag = DID_LOGICAL_CHANNEL_NUM /\ dlist[i].pds = PDS_EICTA
        THEN [dlist[i] EXCEPT !.payload = compactPayload(@, 0, 0, Len(@), 4, getId(service))]
        ELSE dlist[i]]

processNITBAT(table) ==
    [table EXCEPT !.descs = processNITBATDescriptorList(@),
                  !.transports = [ts \in DOMAIN @ |-> processNITBATDescriptorList(@[ts])]]

(***************************************************************************)
(* handleTable: invoked by the demux when a complete table is available.   *)
(***************************************************************************)
ignoreTable(table) ==
    /\ demux' = demuxAfter(table, {})
    /\ UNCHANGED <<abort, ready, transparent, service, drop_pids, ref_pids,
                   pzer_pat, pzer_sdt_bat, pzer_nit>>

passSDTBAT(table, edited) ==
    /\ pzer_sdt_bat' = addTable(removeSections(pzer_sdt_bat, table.tid, table.ext), edited)
    /\ demux' = demuxAfter(table, {})
    /\ UNCHANGED <<abort, ready, transparent, service, drop_pids, ref_pids, pzer_pat, pzer_nit>>

passNIT(table, edited) ==
    /\ pzer_nit' = addTable(removeSections(pzer_nit, table.tid, table.ext), edited)
    /\ demux' = demuxAfter(table, {})
    /\ UNCHANGED <<abort, ready, transparent, service, drop_pids, ref_pids, pzer_pat, pzer_sdt_bat>>

\* deferBAT without the call of resetPID.
deferBAT_no_reset(table) == ignoreTable(table)

deferBAT(table) ==
    /\ demux' = [demux EXCEPT !.ctx = resetPID(ctxRecord(table), table.pid)]
    /\ UNCHANGED <<abort, ready, transparent, service, drop_pids, ref_pids,
                   pzer_pat, pzer_sdt_bat, pzer_nit>>

handleBAT(table) ==
    IF table.pid = PID_BAT
    THEN IF ~hasId(service) THEN deferBAT(table)
         ELSE IF ignore_bat THEN passSDTBAT(table, table)
         ELSE IF table.valid THEN passSDTBAT(table, processNITBAT(table))
         ELSE ignoreTable(table)
    ELSE ignoreTable(table)

handleNIT(table) ==
    IF table.pid = PID_NIT
    THEN IF ignore_nit THEN passNIT(table, table)
         ELSE IF table.valid THEN passNIT(table, processNITBAT(table))
         ELSE ignoreTable(table)
    ELSE ignoreTable(table)

handleTable(table) ==
    CASE table.tid = TID_PAT ->
            IF table.pid = PID_PAT /\ table.valid THEN processPAT(table) ELSE ignoreTable(table)
      [] table.tid = TID_PMT ->
            IF table.valid THEN processPMT(table) ELSE ignoreTable(table)
      [] table.tid = TID_SDT_ACT ->
            IF table.pid = PID_SDT /\ table.valid THEN processSDT(table) ELSE ignoreTable(table)
      [] table.tid = TID_SDT_OTH ->
            IF table.pid = PID_SDT THEN passSDTBAT(table, table) ELSE ignoreTable(table)
      [] table.tid = TID_BAT -> handleBAT(table)
      [] table.tid = TID_NIT_ACT -> handleNIT(table)
      [] table.tid = TID_NIT_OTH ->
            IF table.pid = PID_NIT THEN passNIT(table, table) ELSE ignoreTable(table)
      [] OTHER -> ignoreTable(table)

(***************************************************************************)
(* SectionDemux::feedPacket: a packet that completes a new table on a      *)
(* filtered PID makes the demux invoke handleTable on it.                  *)
(***************************************************************************)
delivers(pkt) ==
    /\ pkt.table # NoTable
    /\ pkt.pid \in demux.pids
    /\ pkt.table \notin demux.ctx

feedPacket(pkt) ==
    IF delivers(pkt)
    THEN /\ handleTable(pkt.table)
         /\ ntables' = ntables + 1
    ELSE UNCHANGED <<abort, ready, transparent, service, drop_pids, ref_pids, demux,
                     pzer_pat, pzer_sdt_bat, pzer_nit, ntables>>

(***************************************************************************)
(* processPacket                                                           *)
(***************************************************************************)
\* route with the tests of _abort and _ready exchanged.
route_ready_first(pid, ab, rd, dst, drops, refs, ppat, psdtbat, pnit, ign_nit) ==
    IF ~rd THEN [status |-> dst, from |-> "none"]
    ELSE IF ab THEN [status |-> TSP_END, from |-> "none"]
    ELSE IF pid \in drops /\ pid \notin refs THEN [status |-> dst, from |-> "none"]
    ELSE IF pid = ppat.pid THEN [status |-> TSP_OK, from |-> "pzer_pat"]
    ELSE IF pid = psdtbat.pid THEN [status |-> TSP_OK, from |-> "pzer_sdt_bat"]
    ELSE IF ~ign_nit /\ pid = pnit.pid THEN [status |-> TSP_OK, from |-> "pzer_nit"]
    ELSE [status |-> TSP_OK, from |-> "input"]

\* route without the test of _ref_pids.
route_no_ref(pid, ab, rd, dst, drops, refs, ppat, psdtbat, pnit, ign_nit) ==
    IF ab THEN [status |-> TSP_END, from |-> "none"]
    ELSE IF ~rd THEN [status |-> dst, from |-> "none"]
    ELSE IF pid \in drops THEN [status |-> dst, from |-> "none"]
    ELSE IF pid = ppat.pid THEN [status |-> TSP_OK, from |-> "pzer_pat"]
    ELSE IF pid = psdtbat.pid THEN [status |-> TSP_OK, from |-> "pzer_sdt_bat"]
    ELSE IF ~ign_nit /\ pid = pnit.pid THEN [status |-> TSP_OK, from |-> "pzer_nit"]
    ELSE [status |-> TSP_OK, from |-> "input"]

\* route that removes the packets it drops whatever the --stuffing option.
route_always_drop(pid, ab, rd, dst, drops, refs, ppat, psdtbat, pnit, ign_nit) ==
    IF ab THEN [status |-> TSP_END, from |-> "none"]
    ELSE IF ~rd THEN [status |-> TSP_DROP, from |-> "none"]
    ELSE IF pid \in drops /\ pid \notin refs THEN [status |-> TSP_DROP, from |-> "none"]
    ELSE IF pid = ppat.pid THEN [status |-> TSP_OK, from |-> "pzer_pat"]
    ELSE IF pid = psdtbat.pid THEN [status |-> TSP_OK, from |-> "pzer_sdt_bat"]
    ELSE IF ~ign_nit /\ pid = pnit.pid THEN [status |-> TSP_OK, from |-> "pzer_nit"]
    ELSE [status |-> TSP_OK, from |-> "input"]

\* The decision taken after the demux was fed: the status returned and the
\* origin of the packet's content.
route(pid, ab, rd, dst, drops, refs, ppat, psdtbat, pnit, ign_nit) ==
    IF ab THEN [status |-> TSP_END, from |-> "none"]
    ELSE IF ~rd THEN [status |-> dst, from |-> "none"]
    ELSE IF pid \in drops /\ pid \notin refs THEN [status |-> dst, from |-> "none"]
    ELSE IF pid = ppat.pid THEN [status |-> TSP_OK, from |-> "pzer_pat"]
    ELSE IF pid = psdtbat.pid THEN [status |-> TSP_OK, from |-> "pzer_sdt_bat"]
    ELSE IF ~ign_nit /\ pid = pnit.pid THEN [status |-> TSP_OK, from |-> "pzer_nit"]
    ELSE [status |-> TSP_OK, from |-> "input"]

\* processPacket that feeds the demux before it tests _transparent.
processPacket_feed_first(pkt) ==
    /\ delivers(pkt) => ntables < MaxTables
    /\ UNCHANGED config
    /\ feedPacket(pkt)
    /\ LET r == IF transparent' THEN [status |-> TSP_OK, from |-> "input"]
                ELSE route(pkt.pid, abort', ready', drop_status, drop_pids', ref_pids',
                           pzer_pat', pzer_sdt_bat', pzer_nit', ignore_nit)
       IN  last' = [op |-> "packet", pid |-> pkt.pid,
                    table |-> IF delivers(pkt) THEN pkt.table ELSE NoTable,
                    fed |-> ~transparent, status |-> r.status, from |-> r.from]

processPacket(pkt) ==
    /\ delivers(pkt) => ntables < MaxTables
    /\ UNCHANGED config
    /\ IF transparent
       THEN /\ last' = [op |-> "packet", pid |-> pkt.pid, table |-> NoTable, fed |-> FALSE,
                        status |-> TSP_OK, from |-> "input"]
            /\ UNCHANGED <<abort, ready, transparent, service, drop_pids, ref_pids, demux,
                           pzer_pat, pzer_sdt_bat, pzer_nit, ntables>>
       ELSE /\ feedPacket(pkt)
            /\ LET r == route(pkt.pid, abort', ready', drop_status, drop_pids', ref_pids',
                              pzer_pat', pzer_sdt_bat', pzer_nit', ignore_nit)
               IN  last' = [op |-> "packet", pid |-> pkt.pid,
                            table |-> IF delivers(pkt) THEN pkt.table ELSE NoTable,
                            fed |-> TRUE, status |-> r.status, from |-> r.from]

\* The packets of the input stream, by what they carry.
packetOf(table) == [pid |-> table.pid, table |-> table]

\* tsp gives the plugin no packet after processPacket returned TSP_END: the
\* stream is terminated.
streamOpen == last.status # TSP_END

PlainPacket ==
    /\ streamOpen
    /\ \E pid \in PacketPIDs : processPacket([pid |-> pid, table |-> NoTable])

PATPacket == streamOpen /\ \E t \in PATs : processPacket(packetOf(t))
PMTPacket == streamOpen /\ \E t \in PMTs : processPacket(packetOf(t))
SDTPacket == streamOpen /\ \E t \in SDTs : processPacket(packetOf(t))
BATPacket == streamOpen /\ \E t \in BATs : processPacket(packetOf(t))
NITPacket == streamOpen /\ \E t \in NITs : processPacket(packetOf(t))

Restart == start

Next ==
    \/ PlainPacket
    \/ PATPacket
    \/ PMTPacket
    \/ SDTPacket
    \/ BATPacket
    \/ NITPacket
    \/ Restart

Spec == Init /\ [][Next]_vars

(***************************************************************************)
(* The plugin under any caller: processPacket may be called again after it *)
(* returned TSP_END.                                                       *)
(***************************************************************************)
CallerPlainPacket == \E pid \in PacketPIDs : processPacket([pid |-> pid, table |-> NoTable])
CallerPATPacket == \E t \in PATs : processPacket(packetOf(t))
CallerPMTPacket == \E t \in PMTs : processPacket(packetOf(t))
CallerSDTPacket == \E t \in SDTs : processPacket(packetOf(t))
CallerBATPacket == \E t \in BATs : processPacket(packetOf(t))
CallerNITPacket == \E t \in NITs : processPacket(packetOf(t))

CallerNext ==
    \/ CallerPlainPacket
    \/ CallerPATPacket
    \/ CallerPMTPacket
    \/ CallerSDTPacket
    \/ CallerBATPacket
    \/ CallerNITPacket
    \/ Restart

CallerSpec == Init /\ [][CallerNext]_vars

(***************************************************************************)
(* The plugin on a stream whose PMTs come only on PMT PIDs that a          *)
(* processed PAT registered: the PIDs the demux filters that a PAT of the  *)
(* stream gives as PMT PID and that neither start() nor processSDT adds.   *)
(***************************************************************************)
pmtPIDsOf(pat) == {pat.pmts[s] : s \in DOMAIN pat.pmts}

registeredPMTPIDs ==
    {p \in demux.pids \ {PID_SDT, PID_PAT, PID_NIT} :
        \E pat \in PATs : pat.pid = PID_PAT /\ pat.valid /\ p \in pmtPIDsOf(pat)}

RegisteredPMTPacket ==
    /\ streamOpen
    /\ \E t \in PMTs : t.pid \in registeredPMTPIDs /\ processPacket(packetOf(t))

RegisteredNext ==
    \/ PlainPacket
    \/ PATPacket
    \/ RegisteredPMTPacket
    \/ SDTPacket
    \/ BATPacket
    \/ NITPacket
    \/ Restart

RegisteredSpec == Init /\ [][RegisteredNext]_vars

(***************************************************************************)
(* processNITBATDescriptorList on its own: the editor applied to one       *)
(* descriptor of any payload of at most MaxPayload bytes, for a service    *)
(* whose id is known, and applied again to its own result.                 *)
(***************************************************************************)
Bytes == {0, 1, 32}

\* Service ids whose two bytes differ, so that the byte order matters.
EditedServices == {[id |-> <<32>>, name |-> <<>>, pmt_pid |-> <<>>],
                   [id |-> <<8192>>, name |-> <<>>, pmt_pid |-> <<>>]}

\* Tag and private data specifier of the descriptors given to the editor.
EditedKinds ==
    {[tag |-> DID_SERVICE_LIST, pds |-> 0],
     [tag |-> DID_LOGICAL_CHANNEL_NUM, pds |-> PDS_EICTA],
     [tag |-> DID_LOGICAL_CHANNEL_NUM, pds |-> 0]}

EditorInit ==
    /\ service \in EditedServices
    /\ ignore_absent = FALSE
    /\ ignore_bat = FALSE
    /\ ignore_nit = FALSE
    /\ drop_status = TSP_DROP
    /\ demux = [pids |-> startDemuxPIDs(service, ignore_nit), ctx |-> {}]
    /\ ref_pids = SystemPIDs
    /\ abort = FALSE
    /\ ready = FALSE
    /\ transparent = FALSE
    /\ drop_pids = {}
    /\ pzer_pat = [pid |-> PID_PAT, sections |-> {}]
    /\ pzer_sdt_bat = [pid |-> PID_SDT, sections |-> {}]
    /\ pzer_nit = [pid |-> PID_NIT, sections |-> {}]
    /\ last = NoCall
    /\ ntables = 0

\* One application per behaviour: the editor keeps no state between two calls.
EditDescriptorList ==
    /\ last = NoCall
    /\ \E n \in 0..MaxPayload, kind \in EditedKinds :
        \E payload \in [1..n -> Bytes] :
        LET d == Desc(kind.tag, kind.pds, payload)
            once == processNITBATDescriptorList(<<d>>)
        IN  /\ last' = [op |-> "processNITBATDescriptorList", dlist |-> <<d>>,
                         result |-> once, again |-> processNITBATDescriptorList(once)]
            /\ UNCHANGED <<abort, ready, transparent, service, ignore_absent, ignore_bat,
                           ignore_nit, drop_status, drop_pids, ref_pids, demux,
                           pzer_pat, pzer_sdt_bat, pzer_nit, ntables>>

EditorNext == EditDescriptorList

EditorSpec == EditorInit /\ [][EditorNext]_vars

(***************************************************************************)
(* Vocabulary of the properties.                                           *)
(***************************************************************************)
\* The last call was processPacket.
isPacket(call) == call.op = "packet"

\* A status is the configured drop behaviour (removal or null stuffing).
isDrop(call) == call.status = drop_status /\ call.from = "none"

\* The last call delivered a table to handleTable.
delivered(call) == call.op = "packet" /\ call.table # NoTable

(***************************************************************************)
(* C1. Every call of processPacket has exactly one outcome, chosen in this *)
(* priority order: (1) transparent on entry: the packet passes unchanged   *)
(* and the demux is not fed; otherwise the demux is fed and, on the state  *)
(* the handlers leave, (2) abort: end of stream, (3) not ready: the        *)
(* configured drop status, (4) PID in drop_pids and not in ref_pids: the   *)
(* configured drop status, (5) PID of the PAT packetizer, else of the      *)
(* SDT/BAT packetizer, else (NIT not ignored) of the NIT packetizer: the   *)
(* packet is replaced by that packetizer's, (6) otherwise it passes.       *)
(***************************************************************************)
outcomes(call) ==
    { o \in {"pass", "end", "drop", "pat", "sdt_bat", "nit"} :
        \/ o = "pass" /\ call.status = TSP_OK /\ call.from = "input"
        \/ o = "end" /\ call.status = TSP_END /\ call.from = "none"
        \/ o = "drop" /\ call.status = drop_status /\ call.from = "none"
        \/ o = "pat" /\ call.status = TSP_OK /\ call.from = "pzer_pat"
        \/ o = "sdt_bat" /\ call.status = TSP_OK /\ call.from = "pzer_sdt_bat"
        \/ o = "nit" /\ call.status = TSP_OK /\ call.from = "pzer_nit" }

C1_step ==
    isPacket(last') =>
        IF transparent
        THEN /\ outcomes(last') = {"pass"}
             /\ ~last'.fed
             /\ demux' = demux
        ELSE /\ last'.fed
             /\ outcomes(last') =
                  { CASE abort' -> "end"
                      [] ~abort' /\ ~ready' -> "drop"
                      [] ~abort' /\ ready' /\ last'.pid \in drop_pids' \ ref_pids' -> "drop"
                      [] ~abort' /\ ready' /\ last'.pid \notin drop_pids' \ ref_pids'
                            /\ last'.pid = pzer_pat'.pid -> "pat"
                      [] ~abort' /\ ready' /\ last'.pid \notin drop_pids' \ ref_pids'
                            /\ last'.pid # pzer_pat'.pid
                            /\ last'.pid = pzer_sdt_bat'.pid -> "sdt_bat"
                      [] ~abort' /\ ready' /\ last'.pid \notin drop_pids' \ ref_pids'
                            /\ last'.pid # pzer_pat'.pid
                            /\ last'.pid # pzer_sdt_bat'.pid
                            /\ ~ignore_nit /\ last'.pid = pzer_nit'.pid -> "nit"
                      [] OTHER -> "pass" }

C1_PriorityOrder == [][C1_step]_vars

\* A packet on the PID the PAT gave to the NIT, which is not the standard NIT
\* PID, is replaced by the NIT packetizer's.
C1_Witness ==
    /\ isPacket(last)
    /\ last.from = "pzer_nit"
    /\ last.pid # PID_NIT
    /\ ready

(***************************************************************************)
(* C2. As stated: a packet whose PID is in both drop_pids and ref_pids     *)
(* never gets the configured drop status.                                  *)
(***************************************************************************)
C2_Original ==
    isPacket(last) /\ last.pid \in drop_pids \cap ref_pids => ~isDrop(last)

(***************************************************************************)
(* C2, amended. Once ready is true when the decision is taken, a packet    *)
(* whose PID is in both drop_pids and ref_pids never gets the configured   *)
(* drop status.                                                            *)
(***************************************************************************)
C2_RefDominatesWhenReady ==
    isPacket(last) /\ ready /\ last.pid \in drop_pids \cap ref_pids =>
        last.status \notin {TSP_DROP, TSP_NULL}

C2_Witness ==
    /\ isPacket(last)
    /\ last.fed
    /\ ready
    /\ ~abort
    /\ last.pid \in drop_pids \cap ref_pids
    /\ last.status = TSP_OK

(***************************************************************************)
(* C3. As stated: while ready is false, every packet gets the configured   *)
(* drop status, regardless of its PID and of any other state.              *)
(***************************************************************************)
C3_Original ==
    isPacket(last) /\ ~ready => isDrop(last)

(***************************************************************************)
(* C3, amended. A packet that reaches the routing decision (transparent    *)
(* was false on entry) while abort and ready are both false gets the       *)
(* configured drop status, whatever its PID and the PID sets.              *)
(***************************************************************************)
C3_DropUntilReady ==
    isPacket(last) /\ last.fed /\ ~abort /\ ~ready =>
        last.status = drop_status /\ last.from = "none"

\* A packet on a referenced system PID is replaced by stuffing before readiness.
C3_Witness ==
    /\ isPacket(last)
    /\ last.fed
    /\ ~abort
    /\ ~ready
    /\ last.pid \in ref_pids
    /\ last.status = TSP_NULL

(***************************************************************************)
(* PMTs known to have been processed: the last version the demux delivered *)
(* on each PMT PID. (The context of PID_SDT is left out: it is filtered    *)
(* before the service id is known and deferred BATs reset it.)             *)
(***************************************************************************)
processedPMTs == {t \in demux.ctx : t.tid = TID_PMT /\ t.valid /\ t.pid # PID_SDT}

targetPMTs == {t \in processedPMTs : hasId(service) /\ t.service_id = service.id[1]}

otherPMTs == {t \in processedPMTs : hasId(service) /\ t.service_id # service.id[1]}

\* ECM PIDs of the valid CA descriptors of a descriptor list.
ecmPIDs(dlist) ==
    {pid \in {dlist[i].ca_pid : i \in 1..Len(dlist)} :
        \E i \in 1..Len(dlist) : dlist[i].tag = DID_CA /\ dlist[i].valid /\ dlist[i].ca_pid = pid}

\* Elementary stream PIDs, PCR PID and ECM PIDs of a PMT.
listedPIDs(pmt) ==
    DOMAIN pmt.streams \cup {pmt.pcr_pid} \cup ecmPIDs(pmt.descs)
        \cup UNION {ecmPIDs(pmt.streams[es]) : es \in DOMAIN pmt.streams}

sharedPIDs ==
    {p \in UNION {listedPIDs(t) : t \in targetPMTs} :
        \E o \in otherPMTs : p \in listedPIDs(o)}

mappedTargetPMTs == {t \in targetPMTs : service.pmt_pid = <<t.pid>>}

C5_TargetPIDsDropped ==
    \A t \in mappedTargetPMTs :
        /\ {t.pid} \cup listedPIDs(t) \subseteq drop_pids
        /\ ready
        /\ isPacket(last) /\ last.pid \in ({t.pid} \cup listedPIDs(t)) \ ref_pids => isDrop(last)

\* A packet on the ECM PID of a component of the removed service is suppressed.
C5_Witness ==
    /\ isPacket(last)
    /\ ~abort
    /\ \E t \in mappedTargetPMTs :
          \E es \in DOMAIN t.streams : last.pid \in ecmPIDs(t.streams[es])
    /\ last.pid \notin ref_pids
    /\ isDrop(last)

(***************************************************************************)
(* C6. When processPAT processes a PAT that holds the removed service, the *)
(* PAT it gives to the PAT packetizer is the only table there, lacks the   *)
(* service, and keeps every other service to PMT PID entry, in the order   *)
(* of the original, and the NIT PID.                                       *)
(***************************************************************************)
\* The entries of a service map in the order the map iterates them: by key.
RECURSIVE entriesOf(_, _)
entriesOf(map, todo) ==
    IF todo = {} THEN <<>>
    ELSE LET k == Min(todo) IN <<(<<k, map[k]>>)>> \o entriesOf(map, todo \ {k})

entries(map) == entriesOf(map, DOMAIN map)

isProcessedPAT(call) ==
    delivered(call) /\ call.table.tid = TID_PAT /\ call.table.pid = PID_PAT /\ call.table.valid

C6_step ==
    isProcessedPAT(last') /\ hasId(service) /\ service.id[1] \in DOMAIN last'.table.pmts =>
        /\ Cardinality(pzer_pat'.sections) = 1
        /\ \A e \in pzer_pat'.sections :
              /\ e.tid = TID_PAT
              /\ e.nit_pid = last'.table.nit_pid
              /\ entries(e.pmts) =
                    SelectSeq(entries(last'.table.pmts), LAMBDA x : x[1] # service.id[1])

C6_PATWithoutTarget == [][C6_step]_vars

\* A PAT of three services was processed and two are left in the packetizer.
C6_Witness ==
    /\ isProcessedPAT(last)
    /\ hasId(service)
    /\ service.id[1] \in DOMAIN last.table.pmts
    /\ Cardinality(DOMAIN last.table.pmts) = 3
    /\ \E e \in pzer_pat.sections : Cardinality(DOMAIN e.pmts) = 2

(***************************************************************************)
(* C7. When a valid SDT Actual is processed and the service id is known    *)
(* afterwards (it was, or this SDT resolved the name), the SDT given to    *)
(* the SDT/BAT packetizer lacks the entry of the service and keeps every   *)
(* other entry; an SDT Other received on the SDT PID is given to the       *)
(* packetizer as it was received.                                          *)
(***************************************************************************)
isProcessedSDT(call) ==
    delivered(call) /\ call.table.tid = TID_SDT_ACT /\ call.table.pid = PID_SDT /\ call.table.valid

queuedSDT(pzer, tsid) == {e \in pzer.sections : e.tid = TID_SDT_ACT /\ e.ext = tsid}

C7_step ==
    /\ isProcessedSDT(last') /\ hasId(service') =>
          /\ Cardinality(queuedSDT(pzer_sdt_bat', last'.table.ts_id)) = 1
          /\ \A e \in queuedSDT(pzer_sdt_bat', last'.table.ts_id) :
                /\ DOMAIN e.services = DOMAIN last'.table.services \ {service'.id[1]}
                /\ \A s \in DOMAIN e.services : e.services[s] = last'.table.services[s]
    /\ delivered(last') /\ last'.table.tid = TID_SDT_OTH /\ last'.table.pid = PID_SDT =>
          last'.table \in pzer_sdt_bat'.sections

C7_SDTWithoutTarget == [][C7_step]_vars

\* The first SDT resolved the name and is queued without the service.
C7_Witness ==
    /\ isProcessedSDT(last)
    /\ ntables = 1
    /\ hasName(service)
    /\ hasId(service)
    /\ service.id[1] \in DOMAIN last.table.services
    /\ \E e \in queuedSDT(pzer_sdt_bat, last.table.ts_id) :
          /\ service.id[1] \notin DOMAIN e.services
          /\ DOMAIN e.services # {}

(***************************************************************************)
(* C8. When the service is given by name and an SDT Actual without that    *)
(* name is processed: under --ignore-absent transparent becomes true, and  *)
(* from then on every packet passes unchanged; otherwise abort becomes     *)
(* true. In both cases no SDT is given to the packetizer and the demux     *)
(* filters neither the PAT nor the NIT PID.                                *)
(***************************************************************************)
nameAbsent(sdt, svc) ==
    /\ ~hasId(svc)
    /\ \A s \in DOMAIN sdt.services : ~SimilarStrings(sdt.services[s], svc.name[1])

C8_step ==
    /\ isProcessedSDT(last') /\ nameAbsent(last'.table, service) =>
          /\ IF ignore_absent
             THEN transparent' /\ abort' = abort
             ELSE abort' /\ transparent' = transparent
          /\ pzer_sdt_bat' = pzer_sdt_bat
          /\ demux'.pids = demux.pids
          /\ PID_PAT \notin demux'.pids
          /\ ~hasId(service')
    /\ isPacket(last') /\ transparent =>
          /\ last'.status = TSP_OK
          /\ last'.from = "input"
          /\ UNCHANGED <<abort, ready, transparent, service, drop_pids, ref_pids, demux,
                         pzer_pat, pzer_sdt_bat, pzer_nit>>

C8_NameNotFound == [][C8_step]_vars

\* In transparent mode after the name was not found, a packet on the SDT PID passes.
C8_Witness ==
    /\ isPacket(last)
    /\ transparent
    /\ ~last.fed
    /\ last.pid = PID_SDT
    /\ ~abort
    /\ ~hasId(service)
    /\ queuedSDT(pzer_sdt_bat, 1) = {}

(***************************************************************************)
(* C9. When a PAT without the removed service is processed: if             *)
(* --ignore-absent is set, or the NIT or the BAT is to be modified, ready  *)
(* becomes true, abort and drop_pids are left as they were; if             *)
(* --ignore-absent is off and both --ignore-nit and --ignore-bat are set,  *)
(* abort becomes true. In both cases the PAT is given unmodified to the    *)
(* PAT packetizer.                                                         *)
(***************************************************************************)
C9_step ==
    isProcessedPAT(last') /\ hasId(service) /\ service.id[1] \notin DOMAIN last'.table.pmts =>
        /\ IF ignore_absent \/ ~ignore_nit \/ ~ignore_bat
           THEN ready' /\ abort' = abort /\ drop_pids' = drop_pids
           ELSE abort'
        /\ pzer_pat'.sections = {last'.table}

isBAT(call) == delivered(call) /\ call.table.tid = TID_BAT /\ call.table.pid = PID_BAT

\* The complete records of rec bytes of a payload.
recordsOf(payload, rec) ==
    [k \in 1..(Len(payload) \div rec) |-> SubSeq(payload, (k - 1) * rec + 1, k * rec)]

recordServiceId(r) == r[1] * 256 + r[2]

isServiceRecordList(d) ==
    d.tag = DID_SERVICE_LIST \/ (d.tag = DID_LOGICAL_CHANNEL_NUM /\ d.pds = PDS_EICTA)

recordSize(d) == IF d.tag = DID_SERVICE_LIST THEN 3 ELSE 4

\* Descriptor list after is descriptor list before without the records of service id.
isEditedList(before, after, id) ==
    /\ Len(after) = Len(before)
    /\ \A i \in 1..Len(before) :
          IF isServiceRecordList(before[i])
          THEN /\ after[i].tag = before[i].tag
               /\ after[i].pds = before[i].pds
               /\ recordsOf(after[i].payload, recordSize(before[i])) =
                     SelectSeq(recordsOf(before[i].payload, recordSize(before[i])),
                               LAMBDA r : recordServiceId(r) # id)
          ELSE after[i] = before[i]

isEditedTable(before, after, id) ==
    /\ isEditedList(before.descs, after.descs, id)
    /\ DOMAIN after.transports = DOMAIN before.transports
    /\ \A ts \in DOMAIN before.transports :
          isEditedList(before.transports[ts], after.transports[ts], id)

queuedBAT(pzer, bouquet) == {e \in pzer.sections : e.tid = TID_BAT /\ e.ext = bouquet}

C10_step ==
    /\ isBAT(last') /\ ~hasId(service) =>
          /\ UNCHANGED <<pzer_pat, pzer_sdt_bat, pzer_nit>>
          /\ UNCHANGED <<abort, ready, transparent, drop_pids, ref_pids, service>>
          /\ \A c \in demux'.ctx : c.pid # PID_BAT
          /\ demux'.pids = demux.pids
    /\ isBAT(last') /\ hasName(service) /\ hasId(service) /\ ~ignore_bat /\ last'.table.valid =>
          /\ Cardinality(queuedBAT(pzer_sdt_bat', last'.table.ext)) = 1
          /\ \A e \in queuedBAT(pzer_sdt_bat', last'.table.ext) :
                isEditedTable(last'.table, e, service.id[1])

C10_DeferredBAT == [][C10_step]_vars

\* By name, the third table delivered is a BAT, queued without the records of the service.
C10_Witness ==
    /\ isBAT(last)
    /\ ntables = 3
    /\ hasName(service)
    /\ hasId(service)
    /\ ~ignore_bat
    /\ \E e \in queuedBAT(pzer_sdt_bat, last.table.ext) :
          /\ e # last.table
          /\ isEditedTable(last.table, e, service.id[1])
    /\ queuedSDT(pzer_sdt_bat, 1) # {}
(***************************************************************************)
(* Vocabulary of the properties of the descriptor list editor.             *)
(***************************************************************************)
isEdit(call) == call.op = "processNITBATDescriptorList"

\* The descriptor given to the editor and the descriptor it left.
editedIn(call) == call.dlist[1]
editedOut(call) == call.result[1]

\* The complete records of a payload that are not those of service id.
keptRecords(payload, rec, id) ==
    SelectSeq(recordsOf(payload, rec), LAMBDA r : recordServiceId(r) # id)

(***************************************************************************)
(* C11. For every service list payload (records of 3 bytes) and every      *)
(* logical channel number payload (records of 4 bytes) whose length is a   *)
(* multiple of the record size, and every service id, the editor leaves    *)
(* exactly the records whose leading 16-bit service id differs from the    *)
(* service id, in their order and with their bytes: the length of the      *)
(* result is a multiple of the record size.                                *)
(***************************************************************************)
C11_RecordsKept ==
    isEdit(last) /\ isServiceRecordList(editedIn(last))
                 /\ Len(editedIn(last).payload) % recordSize(editedIn(last)) = 0 =>
        LET rec == recordSize(editedIn(last))
            kept == keptRecords(editedIn(last).payload, rec, service.id[1])
        IN  /\ Len(last.result) = 1
            /\ editedOut(last).tag = editedIn(last).tag
            /\ Len(editedOut(last).payload) = rec * Len(kept)
            /\ recordsOf(editedOut(last).payload, rec) = kept

\* Two logical channel records: the first is the service's, the second moved to the front.
C11_Witness ==
    /\ isEdit(last)
    /\ editedIn(last).tag = DID_LOGICAL_CHANNEL_NUM
    /\ editedIn(last).pds = PDS_EICTA
    /\ Len(editedIn(last).payload) = 8
    /\ recordServiceId(SubSeq(editedIn(last).payload, 1, 4)) = service.id[1]
    /\ editedIn(last).payload[8] # editedIn(last).payload[4]
    /\ editedOut(last).payload = SubSeq(editedIn(last).payload, 5, 8)
(***************************************************************************)
(* C12. The editor is idempotent: for every payload and every service id,  *)
(* the editor applied to its own result, with the same service id, leaves  *)
(* that result as it is, bytes and length.                                 *)
(***************************************************************************)
C12_Idempotent ==
    isEdit(last) => last.again = last.result

\* Three service list records: the first two are the service's and are removed,
\* the third is kept, and a second pass leaves it.
C12_Witness ==
    /\ isEdit(last)
    /\ editedIn(last).tag = DID_SERVICE_LIST
    /\ Len(editedIn(last).payload) >= 9
    /\ recordServiceId(SubSeq(editedIn(last).payload, 1, 3)) = service.id[1]
    /\ recordServiceId(SubSeq(editedIn(last).payload, 4, 6)) = service.id[1]
    /\ editedOut(last).payload = SubSeq(editedIn(last).payload, 7, 9)
    /\ last.again = last.result
(***************************************************************************)
(* C13. Abort is terminal: once a table handler has set abort, the packet  *)
(* whose feeding set it and every later packet given to processPacket get  *)
(* the end of stream status (the packet is neither passed, replaced nor    *)
(* dropped), whatever ready and the PID sets, and abort stays true until   *)
(* start() is called again.                                                *)
(***************************************************************************)
C13_step ==
    /\ isPacket(last') /\ (abort \/ abort') =>
          /\ outcomes(last') = {"end"}
          /\ abort'
    /\ abort /\ ~abort' => last'.op = "start"

C13_AbortTerminal == [][C13_step]_vars

\* A packet that completes no table, given after the abort, on a PID of the
\* removed service, with ready true: it gets the end of stream status.
C13_Witness ==
    /\ isPacket(last)
    /\ last.table = NoTable
    /\ abort
    /\ ready
    /\ last.pid \in drop_pids \ ref_pids
    /\ last.status = TSP_END
(***************************************************************************)
(* C14. Transparent mode is terminal and frozen: once transparent is true, *)
(* every packet passes unchanged and the demux is not fed, so that abort,  *)
(* ready, drop_pids, ref_pids, the service and the contents of the three   *)
(* packetizers stay as they are, and transparent stays true, until start() *)
(* is called again.                                                        *)
(***************************************************************************)
C14_step ==
    /\ transparent /\ isPacket(last') =>
          /\ outcomes(last') = {"pass"}
          /\ ~last'.fed
          /\ transparent'
          /\ UNCHANGED <<abort, ready, drop_pids, ref_pids, service, demux>>
          /\ UNCHANGED <<pzer_pat, pzer_sdt_bat, pzer_nit>>
    /\ transparent /\ ~transparent' => last'.op = "start"

C14_TransparentFrozen == [][C14_step]_vars

\* In transparent mode a packet on the PAT PID passes as it is: no PAT was
\* ever queued and the demux does not even filter the PAT PID.
C14_Witness ==
    /\ isPacket(last)
    /\ transparent
    /\ ~last.fed
    /\ last.pid = PID_PAT
    /\ last.status = TSP_OK
    /\ last.from = "input"
    /\ pzer_pat.sections = {}
    /\ PID_PAT \notin demux.pids
(***************************************************************************)
(* C15. The flags abort, ready and transparent are monotonic within a run: *)
(* start() sets the three to false, and no packet, whatever table it       *)
(* completes (a later PAT without the service or with it again, a later    *)
(* SDT), changes one of them from true to false.                           *)
(***************************************************************************)
C15_step ==
    IF last'.op = "start"
    THEN ~abort' /\ ~ready' /\ ~transparent'
    ELSE /\ abort => abort'
         /\ ready => ready'
         /\ transparent => transparent'

C15_FlagsMonotonic == [][C15_step]_vars

\* The PMT of the service made the plugin ready; a later PAT no longer holds
\* the service and ready is still true.
C15_Witness ==
    /\ isProcessedPAT(last)
    /\ hasId(service)
    /\ service.id[1] \notin DOMAIN last.table.pmts
    /\ mappedTargetPMTs # {}
    /\ ignore_absent
    /\ ready
    /\ ~abort
(***************************************************************************)
(* C16. When the service id is known and a processed SDT Actual has no     *)
(* entry for it, this is not fatal: abort, transparent and ready are left  *)
(* as they were, and the SDT is given unmodified to the SDT/BAT            *)
(* packetizer, where it replaces the SDT Actual queued for the same        *)
(* transport stream id.                                                    *)
(***************************************************************************)
C16_step ==
    isProcessedSDT(last') /\ hasId(service) /\ service.id[1] \notin DOMAIN last'.table.services =>
        /\ UNCHANGED <<abort, transparent, ready>>
        /\ service' = service
        /\ queuedSDT(pzer_sdt_bat', last'.table.ts_id) = {last'.table}
        /\ pzer_sdt_bat'.sections \ {last'.table} =
              pzer_sdt_bat.sections \ queuedSDT(pzer_sdt_bat, last'.table.ts_id)

C16_IdNotInSDT == [][C16_step]_vars

\* The name was resolved by an earlier SDT, which was queued; a later SDT of the
\* same transport stream lacks the service and is the one queued now.
C16_Witness ==
    /\ isProcessedSDT(last)
    /\ hasName(service)
    /\ hasId(service)
    /\ service.id[1] \notin DOMAIN last.table.services
    /\ queuedSDT(pzer_sdt_bat, last.table.ts_id) = {last.table}
    /\ ~abort
    /\ ~transparent
(***************************************************************************)
(* C17. As stated: for a service list or logical channel number payload    *)
(* whose length is not a multiple of the record size, the trailing partial *)
(* record is still present, unchanged, at the end of the payload the       *)
(* editor leaves.                                                          *)
(***************************************************************************)
\* The bytes of a payload after its last complete record.
partialRecord(payload, rec) ==
    SubSeq(payload, Len(payload) - (Len(payload) % rec) + 1, Len(payload))

endsWith(payload, tail) ==
    /\ Len(payload) >= Len(tail)
    /\ SubSeq(payload, Len(payload) - Len(tail) + 1, Len(payload)) = tail

C17_Original ==
    isEdit(last) /\ isServiceRecordList(editedIn(last))
                 /\ Len(editedIn(last).payload) % recordSize(editedIn(last)) # 0 =>
        endsWith(editedOut(last).payload,
                 partialRecord(editedIn(last).payload, recordSize(editedIn(last))))

(***************************************************************************)
(* C17, amended. For a service list or logical channel number payload      *)
(* whose length is not a multiple of the record size, the trailing partial *)
(* record is not read as a record and the final resize removes it: the     *)
(* payload the editor leaves is exactly the complete records that are not  *)
(* the service's, in order, and nothing after them.                        *)
(***************************************************************************)
C17_PartialRecordDropped ==
    isEdit(last) /\ isServiceRecordList(editedIn(last))
                 /\ Len(editedIn(last).payload) % recordSize(editedIn(last)) # 0 =>
        LET rec == recordSize(editedIn(last))
            whole == SubSeq(editedIn(last).payload, 1,
                            Len(editedIn(last).payload) - (Len(editedIn(last).payload) % rec))
            kept == keptRecords(whole, rec, service.id[1])
        IN  /\ Len(editedOut(last).payload) = rec * Len(kept)
            /\ recordsOf(editedOut(last).payload, rec) = kept

\* A service list of one record of another service followed by two bytes that
\* spell the id of the service: the record is all that is left.
C17_Witness ==
    /\ isEdit(last)
    /\ editedIn(last).tag = DID_SERVICE_LIST
    /\ Len(editedIn(last).payload) = 5
    /\ recordServiceId(SubSeq(editedIn(last).payload, 1, 3)) # service.id[1]
    /\ recordServiceId(SubSeq(editedIn(last).payload, 4, 5)) = service.id[1]
    /\ editedOut(last).payload = SubSeq(editedIn(last).payload, 1, 3)
(***************************************************************************)
(* C18. processPAT never runs while the service id is unknown: with the    *)
(* service given by name, the demux filters neither the PAT PID nor the    *)
(* NIT PID until an SDT Actual resolved the name, a PAT given before is    *)
(* not processed, and the assertion at the start of processPAT (the        *)
(* service has an id) holds whenever processPAT is entered, whatever the   *)
(* order in which SDT, PAT, BAT and NIT arrive.                            *)
(***************************************************************************)
C18_step ==
    /\ ~hasId(service) =>
          /\ PID_PAT \notin demux.pids
          /\ PID_NIT \notin demux.pids
          /\ pzer_pat.sections = {}
    /\ isProcessedPAT(last') => hasId(service)
    /\ delivered(last') /\ last'.table.tid = TID_PAT /\ ~hasId(service) =>
          UNCHANGED <<abort, ready, transparent, service, drop_pids, ref_pids,
                      pzer_pat, pzer_sdt_bat, pzer_nit>>
    /\ PID_PAT \in demux'.pids /\ PID_PAT \notin demux.pids =>
          /\ isProcessedSDT(last')
          /\ hasId(service')

C18_PATNeedsId == [][C18_step]_vars

\* By name: a BAT was deferred, an SDT resolved the name, then a PAT was processed.
C18_Witness ==
    /\ isProcessedPAT(last)
    /\ hasName(service)
    /\ hasId(service)
    /\ ntables = 3
    /\ queuedSDT(pzer_sdt_bat, 1) # {}
    /\ queuedBAT(pzer_sdt_bat, 5) = {}
    /\ \A c \in demux.ctx : c.tid # TID_BAT
    /\ pzer_pat.sections # {}
(***************************************************************************)
(* C19. In every state after start(), every standard PID that start()      *)
(* sets in ref_pids (PAT, CAT, TSDT, null, NIT, SDT/BAT, EIT, RST,         *)
(* TDT/TOT, network synchronization, RNT, inband signalling, measurement,  *)
(* DIT, SIT) is in ref_pids, whatever PATs and PMTs were processed, also a *)
(* PMT of the removed service that lists such a PID: once ready, a packet  *)
(* on such a PID never gets the configured drop status.                    *)
(***************************************************************************)
C19_SystemPIDsReferenced ==
    /\ {PID_PAT, PID_CAT, PID_TSDT, PID_NULL, PID_NIT, PID_SDT, PID_BAT, PID_EIT, PID_RST,
         PID_TDT, PID_NETSYNC, PID_RNT, PID_INBSIGN, PID_MEASURE, PID_DIT, PID_SIT}
            \subseteq ref_pids
    /\ isPacket(last) /\ ready /\ last.pid \in SystemPIDs =>
            last.status \notin {TSP_DROP, TSP_NULL}

\* The PMT of the removed service lists the NIT PID as a component, the null
\* PID as PCR PID and the EIT PID as ECM PID: the three are in drop_pids, and a
\* packet on the null PID passes.
C19_Witness ==
    /\ isPacket(last)
    /\ last.pid = PID_NULL
    /\ {PID_NIT, PID_NULL, PID_EIT} \subseteq drop_pids
    /\ ready
    /\ ~abort
    /\ last.status = TSP_OK
    /\ last.from = "input"
(***************************************************************************)
(* C20. The service id does not change within a run once it is set (by     *)
(* start() from a numeric argument, or by the first SDT Actual that holds  *)
(* the name): no later table changes it, a later SDT Actual is searched by *)
(* id, not by name, even if it gives the name to another service id, and   *)
(* of the service only pmt_pid changes, on a PAT that holds the service.   *)
(***************************************************************************)
C20_step ==
    hasId(service) /\ last'.op # "start" =>
        /\ service'.id = service.id
        /\ service'.name = service.name
        /\ service'.pmt_pid # service.pmt_pid =>
              /\ isProcessedPAT(last')
              /\ service.id[1] \in DOMAIN last'.table.pmts
              /\ service'.pmt_pid = <<last'.table.pmts[service.id[1]]>>
        /\ isProcessedSDT(last') =>
              \A e \in queuedSDT(pzer_sdt_bat', last'.table.ts_id) :
                  DOMAIN e.services = DOMAIN last'.table.services \ {service.id[1]}

C20_ServiceIdImmutable == [][C20_step]_vars

\* The name was resolved to an id; a later SDT gives the name to another id and
\* another name to the id: the id is kept and the entry of the id is removed.
C20_Witness ==
    /\ isProcessedSDT(last)
    /\ hasName(service)
    /\ hasId(service)
    /\ service.id[1] \in DOMAIN last.table.services
    /\ ~SimilarStrings(last.table.services[service.id[1]], service.name[1])
    /\ \E s \in DOMAIN last.table.services :
          /\ s # service.id[1]
          /\ SimilarStrings(last.table.services[s], service.name[1])
          /\ \E e \in queuedSDT(pzer_sdt_bat, last.table.ts_id) :
                DOMAIN e.services = {s}
C21_step ==
    /\ ~(abort' /\ transparent')
    /\ transparent' => ~hasId(service')
    /\ ~ready /\ ready' /\ ~hasId(service) =>
          /\ delivered(last')
          /\ last'.table.tid = TID_PMT
          /\ last'.table.service_id = getId(service)
    /\ ~abort /\ abort' /\ ~hasId(service) =>
          /\ isProcessedSDT(last')
          /\ ~ignore_absent

withoutService(pat, id) ==
    [pat EXCEPT !.pmts = [s \in {x \in DOMAIN pat.pmts : x # id} |-> pat.pmts[s]]]

C22_step ==
    /\ ready' =>
          /\ hasId(service')
          /\ Cardinality(pzer_pat'.sections) = 1
          /\ \A e \in pzer_pat'.sections :
                e.tid = TID_PAT /\ service'.id[1] \notin DOMAIN e.pmts
    /\ isProcessedPAT(last') =>
          pzer_pat'.sections = {withoutService(last'.table, getId(service))}
    /\ ~isProcessedPAT(last') /\ last'.op # "start" => pzer_pat' = pzer_pat
    /\ isPacket(last') /\ ready' /\ last'.pid = PID_PAT =>
          IF abort' THEN outcomes(last') = {"end"} ELSE outcomes(last') = {"pat"}

====
